---------------------------- MODULE Spec2Model ----------------------------
(***************************************************************************)
(* MUX_Service: a serial transport (SerialCommunicator), the thread-safe   *)
(* device registry (DeviceController) and the OPC UA reconciler            *)
(* (OpcUaServer / SubHandler) that mirrors the registry.                    *)
(*                                                                         *)
(* Three specifications share the registry and transport state:            *)
(*   SpecTransport one caller runs DeviceController operations step by     *)
(*                 step (stale-response discard, write, wait) next to the  *)
(*                 reader thread, the device and the link, and connects    *)
(*                 and disconnects the transport;                          *)
(*   SpecRegistry  two caller threads do the same on a connected           *)
(*                 transport, ordered by the mutex;                        *)
(*   Spec          the server program of server_cli.py: the coroutines of  *)
(*                 one event loop, each Registry call a synchronous call   *)
(*                 that ends in any way _send_command can end.             *)
(***************************************************************************)
EXTENDS Integers, Sequences, FiniteSets, TLC

\* ------------------------------------------------------------------ bounds
MaxChan  == 1      \* channels callers ask for are 1..MaxChan
MaxLines == 1      \* response lines in flight (link buffer + response_queue)
MaxEvents == 1     \* data-change notifications waiting for the handler
MaxReaders == 2    \* reader threads alive at a time

\* The token that is not a number ("abc"): str.isdigit() is False and int()
\* raises ValueError on it.
NaN == -1
\* The token that str.isdigit() takes for a digit and int() refuses with
\* ValueError ("\u00b2", superscript two).
Sup2 == -2

BusAddr == {1, 2}        \* the addresses of the boards on the bus
Chan    == 0..MaxChan
Thread  == {1, 2}

\* A received line, stripped, as its whitespace-separated tokens.  The reader
\* never enqueues an empty line.  The device answers a SET or RST with 0, 2
\* or a line that is no number, and a SCN with "1", "1 2" or such a line.
StatusLine == {<<0>>, <<2>>, <<NaN>>}
ScanLine   == {<<1>>, <<1, 2>>, <<NaN>>}

\* What _send_command returns: a line, or None.
NoResponse  == [got |-> FALSE, line |-> <<>>]
Response(l) == [got |-> TRUE, line |-> l]

VARIABLES
  \* SerialCommunicator
  ser,             \* "none" | "open" | "closed": self.ser / self.ser.is_open
  is_running,      \* self.is_running
  stop_event,      \* self._stop_event
  readers,         \* live reader threads (_read_from_port loops)
  response_queue,  \* self.response_queue: lines, each with the caller whose
                   \* exchange it answers (0 once that exchange has ended)
  wire,            \* lines the device has sent and the reader has not read
  link,            \* "up" | "down": the physical link
  \* DeviceController
  devices,         \* self.devices: address -> MuxDevice
  lock,            \* self._lock: 0 free, else the holding thread
  \* caller threads of SpecRegistry
  pc,              \* where each thread is in its Registry call
  op,              \* the call each thread is in
  \* what the step just taken did (reset by every other step)
  dropped,         \* the lines a stale-response discard removed, by owner
  ret,             \* the value a call returned
  \* OpcUaServer and the program around it (Spec)
  phase,           \* main(): "boot" | "connected" | "starting" | "serving"
                   \*   | "stopping" | "stopped"
  pass,            \* the reconciliation pass under way, with the addresses left
  monitor,         \* _connection_monitor: "none" | "sleeping" | "reconnecting"
                   \*   | "rescan" | "dead" | "cancelled"
  mux_nodes,       \* self.mux_nodes, as the set of mirrored addresses
  mirror,          \* ActiveChannel and LastOperationStatus of each entry
  trig,            \* SetChannel and Reset of each entry
  subscribed,      \* the entries whose triggers the subscription watches
  gateway_status,  \* GatewayStatus
  mux_count,       \* MuxBoardCount
  srv_running,     \* OpcUaServer.is_running
  events,          \* data-change notifications not yet delivered
  sent,            \* the command lines the step just taken wrote
  handled,         \* the notification the step just taken handled
  hist             \* the last non-zero SetChannel write handled before it

tvars == <<ser, is_running, stop_event, readers, response_queue, wire, link>>
rvars == <<devices, lock>>
cvars == <<pc, op, dropped, ret>>
svars == <<phase, pass, monitor, mux_nodes, mirror, trig, subscribed,
           gateway_status, mux_count, srv_running, events, sent, handled, hist>>
vars  == <<tvars, rvars, cvars, svars>>

\* A step that is none of the server's: it wrote no command line and handled
\* no notification.
NoServerStep ==
  /\ sent' = <<>>
  /\ handled' = [addr |-> 0, node |-> "none", val |-> 0, flag |-> FALSE,
                 own |-> FALSE]
  /\ hist' = [addr |-> 0, val |-> 0, sets |-> 0, status |-> "none"]
  /\ pass' = [pass EXCEPT !.ended = "no"]
  /\ UNCHANGED <<phase, monitor, mux_nodes, mirror, trig, subscribed,
                 gateway_status, mux_count, srv_running, events>>


\* ------------------------------------------------------- ArduinoError enums
\* The enum SerialCommunicator builds its statuses from.
SerialArduinoError(n) == [enum |-> "serial_communicator.ArduinoError", name |-> n]
\* The enum DeviceController imports and compares statuses with.  A member of
\* one Enum class never equals a member of another, whatever its name and value.
ErrorsArduinoError(n) == [enum |-> "errors.ArduinoError", name |-> n]

from_int(v) ==
  SerialArduinoError(CASE v = 0 -> "SUCCESS"
                       [] v = 1 -> "COM_ERROR"
                       [] v = 2 -> "ADDR_ERROR"
                       [] OTHER -> "UNKNOWN")

isdigit(l) == Len(l) = 1 /\ l[1] # NaN

\* int(response) raising ValueError, which set_channel / reset_mux let escape.
ValueError == [enum |-> "ValueError", name |-> "raised"]

\* SerialCommunicator.set_channel / reset_mux: the status of a response.
parse_status(r) ==
  IF r.got /\ isdigit(r.line)
  THEN IF r.line[1] = Sup2 THEN ValueError ELSE from_int(r.line[1])
  ELSE SerialArduinoError("UNKNOWN")

\* SerialCommunicator.scan_i2c_bus: the address list of a response, or None.
NoList == [ok |-> FALSE, addrs |-> {}]
scan_i2c_bus(r) ==
  IF ~r.got THEN NoList
  ELSE IF \E i \in 1..Len(r.line) : r.line[i] \in {NaN, Sup2} THEN NoList
  ELSE [ok |-> TRUE, addrs |-> {r.line[i] : i \in 1..Len(r.line)}]

\* ------------------------------------------------------- DeviceController
MuxDevice == [active_channel |-> 0, last_status |-> "IDLE"]

\* `status == ArduinoError.SUCCESS` in set_channel / reset_mux.
is_success(status) == status = ErrorsArduinoError("SUCCESS")

\* apply_status with the status recorded on every Device of the Registry.
apply_status_to_all(devs, a, status, ch) ==
  [b \in DOMAIN devs |-> [devs[b] EXCEPT !.last_status = status.name]]

\* apply_status with the channel assigned whatever the status.
apply_status_always(devs, a, status, ch) ==
  [devs EXCEPT ![a].last_status = status.name, ![a].active_channel = ch]

\* apply_status with last_status assigned on SUCCESS only.
apply_status_on_success(devs, a, status, ch) ==
  IF status.name = "SUCCESS"
  THEN [devs EXCEPT ![a].last_status = status.name, ![a].active_channel = ch]
  ELSE devs

\* The body of set_channel / reset_mux after the transport returned `status`:
\* last_status always, active_channel on SUCCESS only.
apply_status(devs, a, status, ch) ==
  LET d1 == [devs EXCEPT ![a].last_status = status.name]
  IN  IF is_success(status) THEN [d1 EXCEPT ![a].active_channel = ch] ELSE d1

\* scan_for_devices without the `or []`: set(None) raises TypeError, which
\* its `except Exception` takes for a lost connection.
found_addrs_without_or(l) == [raised |-> ~l.ok, addrs |-> l.addrs]

\* scan_for_devices: `found_addrs = self.comm.scan_i2c_bus() or []`, a None
\* made the empty list, so `set(found_addrs)` never raises.
found_addrs(l) == [raised |-> FALSE, addrs |-> l.addrs]

\* scan_for_devices without its deletion of known - found.
scan_merge_no_delete(devs, found) ==
  [a \in found \cup DOMAIN devs |-> IF a \in DOMAIN devs THEN devs[a] ELSE MuxDevice]

\* scan_for_devices creating a fresh Device for every address found.
scan_merge_all_new(devs, found) == [a \in found |-> MuxDevice]

\* scan_for_devices: delete known - found and create found - known.
scan_merge(devs, found) ==
  [a \in found |-> IF a \in DOMAIN devs THEN devs[a] ELSE MuxDevice]

\* DeviceController.is_connected reads comm.is_connected, an attribute the
\* communicator is assumed to carry; it is the transport's running flag.
is_connected == is_running


\* ---------------------------------------------------- SerialCommunicator
Idle    == [kind |-> "none", addr |-> 0, chan |-> 0]
Cmd(k, a, c) == [kind |-> k, addr |-> a, chan |-> c]

\* What the step just taken returned to its caller, if it ended a call: the
\* value, and for a call that made an exchange the response _send_command
\* returned and the name of the status the transport made of it.
RetNone ==
  [kind |-> "none", of |-> Idle, val |-> FALSE, keys |-> {},
   exchanged |-> FALSE, resp |-> NoResponse, status |-> "none"]
RetBool(o, b, r) ==
  [kind |-> "bool", of |-> o, val |-> b, keys |-> {},
   exchanged |-> TRUE, resp |-> r, status |-> parse_status(r).name]
RetEarly(o) ==
  [kind |-> "bool", of |-> o, val |-> FALSE, keys |-> {},
   exchanged |-> FALSE, resp |-> NoResponse, status |-> "none"]
RetList(o, k, r) ==
  [kind |-> "list", of |-> o, val |-> FALSE, keys |-> k,
   exchanged |-> TRUE, resp |-> r, status |-> "none"]
RetNoList(o) ==
  [kind |-> "list", of |-> o, val |-> FALSE, keys |-> {},
   exchanged |-> FALSE, resp |-> NoResponse, status |-> "none"]
\* scan_for_devices returning [] from its `except Exception`.
RetCaught(o) ==
  [kind |-> "list", of |-> o, val |-> FALSE, keys |-> {},
   exchanged |-> FALSE, resp |-> NoResponse, status |-> "caught"]
RetRaised(o) ==
  [kind |-> "raised", of |-> o, val |-> FALSE, keys |-> {},
   exchanged |-> FALSE, resp |-> NoResponse, status |-> "none"]
RetLine(o, r) ==
  [kind |-> "line", of |-> o, val |-> FALSE, keys |-> {},
   exchanged |-> TRUE, resp |-> r, status |-> "none"]
\* get_device_states returns a copy of the table: its keys here.
RetStates(o, k) ==
  [kind |-> "dict", of |-> o, val |-> FALSE, keys |-> k,
   exchanged |-> FALSE, resp |-> NoResponse, status |-> "none"]
\* stop() returns nothing.
RetStop ==
  [kind |-> "none", of |-> Cmd("STP", 0, 0), val |-> FALSE, keys |-> {},
   exchanged |-> FALSE, resp |-> NoResponse, status |-> "none"]
RetConnect(b) ==
  [kind |-> "bool", of |-> Cmd("CON", 0, 0), val |-> b, keys |-> {},
   exchanged |-> FALSE, resp |-> NoResponse, status |-> "none"]

\* The body of a Registry operation o under the mutex once _send_command has
\* returned r: the Registry it leaves, the value it returns and whether it
\* stops the transport (the `except Exception` of scan_for_devices).  A TST
\* is test_connection, called on the transport itself: it returns the line.
Completed(o, devs, r) ==
  IF o.kind = "TST"
  THEN [devices |-> devs, ret |-> RetLine(o, r), stop |-> FALSE]
  ELSE IF o.kind = "SCN"
  THEN LET found == found_addrs(scan_i2c_bus(r))
       IN  IF found.raised
           THEN [devices |-> devs, ret |-> RetCaught(o), stop |-> TRUE]
           ELSE LET merged == scan_merge(devs, found.addrs)
                IN  \* `return list(self.devices.keys())`
                    [devices |-> merged,
                     ret     |-> RetList(o, DOMAIN merged, r), stop |-> FALSE]
  ELSE IF o.addr \in DOMAIN devs
  THEN LET st == parse_status(r)
       IN  IF st = ValueError
           THEN [devices |-> devs, ret |-> RetRaised(o), stop |-> FALSE]
           ELSE [devices |-> apply_status(devs, o.addr, st, o.chan),
                 ret     |-> RetBool(o, is_success(st), r), stop |-> FALSE]
  ELSE \* self.devices[address] raises KeyError
       [devices |-> devs, ret |-> RetRaised(o), stop |-> FALSE]

\* A mutex released by hand at the end of the body, which an exception skips.
Exit_unless_raised(l, raised) == IF raised THEN l ELSE 0

\* Leaving `with self._lock:`: the mutex is free, whether the body returned or
\* raised.
Exit(l, raised) == 0

\* _send_command draining the queue after the write instead of before it.
SendCommandSteps_write_first == <<"write", "clear", "wait">>

\* The steps of _send_command once the port is known to be open, in program
\* order: drain response_queue, ser.write, response_queue.get(timeout).
SendCommandSteps == <<"clear", "write", "wait">>

NextStep(step) ==
  LET i == CHOOSE j \in 1..Len(SendCommandSteps) : SendCommandSteps[j] = step
  IN  IF i < Len(SendCommandSteps) THEN SendCommandSteps[i + 1] ELSE "done"

\* The lines a device may answer a command with.
DeviceReplies(kind) == IF kind = "SCN" THEN ScanLine ELSE StatusLine

\* The exchange of thread t has ended: what is still under way for it is stale.
Stale(q, t) == [i \in 1..Len(q) |-> [q[i] EXCEPT !.owner = IF @ = t THEN 0 ELSE @]]

\* SerialCommunicator.stop without its last line, `self.is_running = False`.
StopTransport_flag_left ==
  IF is_running
  THEN /\ stop_event' = TRUE
       /\ readers' = 0
       /\ ser' = IF ser = "open" THEN "closed" ELSE ser
       /\ UNCHANGED is_running
  ELSE UNCHANGED <<stop_event, readers, ser, is_running>>

\* SerialCommunicator.stop without `self.ser.close()`.
StopTransport_port_left ==
  IF is_running
  THEN /\ stop_event' = TRUE
       /\ readers' = 0
       /\ is_running' = FALSE
       /\ UNCHANGED ser
  ELSE UNCHANGED <<stop_event, readers, ser, is_running>>

\* SerialCommunicator.stop, as the assignment of the variables it sets.
StopTransport ==
  IF is_running
  THEN /\ stop_event' = TRUE
       /\ readers' = 0
       /\ ser' = IF ser = "open" THEN "closed" ELSE ser
       /\ is_running' = FALSE
  ELSE UNCHANGED <<stop_event, readers, ser, is_running>>

\* SerialCommunicator.start on a link that can be opened.
StartTransport ==
  /\ ser' = "open"
  /\ stop_event' = FALSE
  /\ readers' = readers + 1
  /\ is_running' = TRUE

\* ------------------------------------------ DeviceController, step by step
\* The end of a Registry operation of thread t whose _send_command returned r
\* and left the queue q: the rest of the `with self._lock:` body, the release
\* of the mutex and the return.
Finish(t, r, q) ==
  /\ response_queue' = Stale(q, t)
  /\ wire' = Stale(wire, t)
  /\ lock' = Exit(lock, Completed(op[t], devices, r).ret.kind = "raised")
  /\ pc' = [pc EXCEPT ![t] = "idle"]
  /\ op' = [op EXCEPT ![t] = Idle]
  /\ dropped' = {}
  /\ UNCHANGED link
  /\ NoServerStep
  /\ devices' = Completed(op[t], devices, r).devices
  /\ ret' = Completed(op[t], devices, r).ret
  /\ IF Completed(op[t], devices, r).stop THEN StopTransport
     ELSE UNCHANGED <<ser, is_running, stop_event, readers>>

\* A call of thread t up to the mutex: `known` is the check made before it,
\* `early` the value returned when the check fails.
Call(t, o, known, early) ==
  /\ pc[t] = "idle"
  /\ dropped' = {}
  /\ IF known
     THEN /\ pc' = [pc EXCEPT ![t] = "lock"]
          /\ op' = [op EXCEPT ![t] = o]
          /\ ret' = RetNone
     ELSE /\ UNCHANGED <<pc, op>>
          /\ ret' = early
  /\ UNCHANGED <<tvars, rvars>>
  /\ NoServerStep

\* set_channel without its `if address not in self.devices: return False`.
CallSetChannel_unchecked(t, a, c) ==
  Call(t, Cmd("SET", a, c), TRUE, RetEarly(Cmd("SET", a, c)))

\* set_channel(address, channel): `if address not in self.devices: return False`
CallSetChannel(t, a, c) ==
  Call(t, Cmd("SET", a, c), a \in DOMAIN devices, RetEarly(Cmd("SET", a, c)))

\* reset_mux(address): `if address not in self.devices: return False`
CallResetMux(t, a) ==
  Call(t, Cmd("RST", a, 0), a \in DOMAIN devices, RetEarly(Cmd("RST", a, 0)))

\* scan_for_devices() without its check of is_connected.
CallScan_unchecked(t) ==
  Call(t, Cmd("SCN", 0, 0), TRUE, RetNoList(Cmd("SCN", 0, 0)))

\* scan_for_devices(): `if not self.is_connected: return []`
CallScan(t) ==
  Call(t, Cmd("SCN", 0, 0), is_connected, RetNoList(Cmd("SCN", 0, 0)))

\* test_connection(), called on the transport by a program that has no
\* Registry (no_server.py): _send_command("TST"), with no mutex to take.
CallTest(t) ==
  /\ pc[t] = "idle"
  /\ dropped' = {}
  /\ IF ser = "open"
     THEN /\ pc' = [pc EXCEPT ![t] = SendCommandSteps[1]]
          /\ op' = [op EXCEPT ![t] = Cmd("TST", 0, 0)]
          /\ ret' = RetNone
     ELSE /\ UNCHANGED <<pc, op>>
          /\ ret' = RetLine(Cmd("TST", 0, 0), NoResponse)
  /\ UNCHANGED <<tvars, rvars>>
  /\ NoServerStep

\* A mutex that never blocks.
MayAcquire_always(t) == TRUE

\* `with self._lock:`
MayAcquire(t) == lock = 0

\* The mutex is taken; _send_command returns None at once on a port not open.
\* get_device_states goes on to its copy.
Acquire(t) ==
  /\ pc[t] = "lock"
  /\ MayAcquire(t)
  /\ IF ser = "open" \/ op[t].kind = "GET"
     THEN /\ lock' = t
          /\ pc' = [pc EXCEPT ![t] = IF op[t].kind = "GET" THEN "copy"
                                     ELSE SendCommandSteps[1]]
          /\ dropped' = {} /\ ret' = RetNone
          /\ UNCHANGED <<tvars, devices, op>> /\ NoServerStep
     ELSE Finish(t, NoResponse, response_queue)

\* get_device_states(): it makes no check before the mutex.
CallGetStates(t) ==
  Call(t, Cmd("GET", 0, 0), TRUE, RetNone)

\* `return self.devices.copy()`, the `with` releasing the mutex.
CopyStates(t) ==
  /\ pc[t] = "copy"
  /\ lock' = Exit(lock, FALSE)
  /\ pc' = [pc EXCEPT ![t] = "idle"]
  /\ op' = [op EXCEPT ![t] = Idle]
  /\ dropped' = {}
  /\ ret' = RetStates(op[t], DOMAIN devices)
  /\ UNCHANGED <<tvars, devices>>
  /\ NoServerStep

\* `while not self.response_queue.empty(): self.response_queue.get_nowait()`
Clear(t) ==
  /\ pc[t] = "clear"
  /\ dropped' = {response_queue[i].owner : i \in 1..Len(response_queue)}
  /\ response_queue' = <<>>
  /\ pc' = [pc EXCEPT ![t] = NextStep("clear")]
  /\ ret' = RetNone
  /\ UNCHANGED <<ser, is_running, stop_event, readers, wire, link, rvars, op>>
  /\ NoServerStep

\* `self.ser.write(...)` on a live link: the device receives the command and
\* answers with a line later, or never.
Write(t) ==
  /\ pc[t] = "write"
  /\ link = "up"
  /\ pc' = [pc EXCEPT ![t] = NextStep("write")]
  /\ \/ UNCHANGED wire
     \/ /\ Len(wire) + Len(response_queue) < MaxLines
        /\ \E l \in DeviceReplies(op[t].kind) :
             wire' = Append(wire, [owner |-> t, line |-> l])
  /\ dropped' = {} /\ ret' = RetNone
  /\ UNCHANGED <<ser, is_running, stop_event, readers, response_queue, link, rvars, op>>
  /\ NoServerStep

\* `self.ser.write(...)` on a lost link raises SerialException: scan_for_devices
\* catches it, stops the transport and returns []; set_channel and reset_mux
\* let it escape, the `with` releasing the mutex.
WriteFails(t) ==
  /\ pc[t] = "write"
  /\ link = "down"
  /\ lock' = Exit(lock, op[t].kind # "SCN")
  /\ pc' = [pc EXCEPT ![t] = "idle"]
  /\ op' = [op EXCEPT ![t] = Idle]
  /\ dropped' = {}
  /\ response_queue' = Stale(response_queue, t)
  /\ UNCHANGED <<wire, link, devices>>
  /\ NoServerStep
  /\ IF op[t].kind = "SCN"
     THEN StopTransport /\ ret' = RetCaught(op[t])
     ELSE /\ UNCHANGED <<ser, is_running, stop_event, readers>>
          /\ ret' = RetRaised(op[t])

\* `self.response_queue.get(timeout=timeout)`: the next line, or queue.Empty
\* when none came within the timeout.
Wait(t) ==
  /\ pc[t] = "wait"
  /\ IF response_queue # <<>>
     THEN Finish(t, Response(Head(response_queue).line), Tail(response_queue))
     ELSE Finish(t, NoResponse, response_queue)

\* DeviceController.connect -> SerialCommunicator.start.  Its callers (main,
\* _connection_monitor) connect a transport that is not running.
Connect(t) ==
  /\ pc[t] = "idle"
  /\ ~is_running
  /\ IF link = "up"
     THEN StartTransport /\ ret' = RetConnect(TRUE)
     ELSE /\ UNCHANGED <<ser, stop_event, readers, is_running>>
          /\ ret' = RetConnect(FALSE)
  /\ dropped' = {}
  /\ UNCHANGED <<response_queue, wire, link, rvars, pc, op>>
  /\ NoServerStep

\* SerialCommunicator.start called on a transport that is running: start()
\* does not look at is_running.  serial.Serial either opens the port a second
\* time (the handle held in self.ser is replaced, not closed, and one more
\* reader thread is started next to the one that runs) or raises because the
\* port is held, where ports are opened for exclusive access.
StartAgain(t) ==
  /\ pc[t] = "idle"
  /\ is_running
  /\ readers < MaxReaders
  /\ \/ link = "up" /\ StartTransport /\ ret' = RetConnect(TRUE)
     \/ /\ UNCHANGED <<ser, stop_event, readers, is_running>>
        /\ ret' = RetConnect(FALSE)
  /\ dropped' = {}
  /\ UNCHANGED <<response_queue, wire, link, rvars, pc, op>>
  /\ NoServerStep

\* DeviceController.disconnect -> SerialCommunicator.stop
Disconnect(t) ==
  /\ pc[t] = "idle"
  /\ StopTransport
  /\ dropped' = {} /\ ret' = RetStop
  /\ UNCHANGED <<response_queue, wire, link, rvars, pc, op>>
  /\ NoServerStep

\* _read_from_port, one iteration that finds a line waiting.
ReaderDeliver ==
  /\ readers > 0 /\ ser = "open" /\ link = "up" /\ ~stop_event
  /\ wire # <<>>
  /\ response_queue' = Append(response_queue, Head(wire))
  /\ wire' = Tail(wire)
  /\ dropped' = {} /\ ret' = RetNone
  /\ UNCHANGED <<ser, is_running, stop_event, readers, link, rvars, pc, op>>
  /\ NoServerStep

\* _read_from_port, `except serial.SerialException: break`.
ReaderIOError ==
  /\ readers > 0 /\ link = "down"
  /\ readers' = readers - 1
  /\ dropped' = {} /\ ret' = RetNone
  /\ UNCHANGED <<ser, is_running, stop_event, response_queue, wire, link, rvars, pc, op>>
  /\ NoServerStep

\* The link is lost (what the device had sent is lost with it) or comes back.
LinkDown ==
  /\ link = "up"
  /\ link' = "down"
  /\ wire' = <<>>
  /\ dropped' = {} /\ ret' = RetNone
  /\ UNCHANGED <<ser, is_running, stop_event, readers, response_queue, rvars, pc, op>>
  /\ NoServerStep

LinkUp ==
  /\ link = "down"
  /\ link' = "up"
  /\ dropped' = {} /\ ret' = RetNone
  /\ UNCHANGED <<ser, is_running, stop_event, readers, response_queue, wire, rvars, pc, op>>
  /\ NoServerStep

InitTransport ==
  /\ ser = "none" /\ is_running = FALSE /\ stop_event = FALSE /\ readers = 0
  /\ response_queue = <<>> /\ wire = <<>> /\ link \in {"up", "down"}

\* The reconciliation pass under way with the addresses its loop has yet to
\* visit, and whether the step just taken ended a pass, and how
\* ("no" | "returned" | "raised").
NoPass(e) == [kind |-> "none", todo |-> {}, ended |-> e]
Pass(k, todo) == [kind |-> k, todo |-> todo, ended |-> "no"]

\* A data-change notification of a write to a watched trigger: the entry, the
\* trigger, the value (val of SetChannel, flag of Reset) and whether the
\* server itself made the write (own).  SetEvent and ResetEvent are the
\* notifications of a client's writes.
SetEvent(a, v) ==
  [addr |-> a, node |-> "SetChannel", val |-> v, flag |-> FALSE, own |-> FALSE]
ResetEvent(a, b) ==
  [addr |-> a, node |-> "Reset", val |-> 0, flag |-> b, own |-> FALSE]
NoEvent == [addr |-> 0, node |-> "none", val |-> 0, flag |-> FALSE, own |-> FALSE]

\* The notification of a handler's write that leaves the trigger as the client
\* set it.
Echo_of_value(e) == [e EXCEPT !.own = TRUE]

\* The notification of `trigger_node.write_value(0)` / `write_value(False)`,
\* the write a handler ends with: the server is told of its own write as of
\* any other.
Echo(e) == [e EXCEPT !.val = 0, !.flag = FALSE, !.own = TRUE]

\* The non-zero SetChannel write handled last, with the SET lines its
\* handling wrote and the status the transport gave, as long as nothing has
\* happened since but the notification of the handler's own write and a
\* client writing the same value to the same trigger again.
NoWrite == [addr |-> 0, val |-> 0, sets |-> 0, status |-> "none"]

InitServer ==
  /\ phase = "boot" /\ pass = NoPass("no") /\ monitor = "none"
  /\ mux_nodes = {} /\ mirror = <<>> /\ trig = <<>> /\ subscribed = {}
  /\ gateway_status = "Initializing" /\ mux_count = 0 /\ srv_running = FALSE
  /\ events = <<>> /\ sent = <<>> /\ handled = NoEvent /\ hist = NoWrite

InitCallers ==
  /\ InitServer
  /\ devices = <<>> /\ lock = 0
  /\ pc = [t \in Thread |-> "idle"]
  /\ op = [t \in Thread |-> Idle]
  /\ dropped = {}
  /\ ret = RetNone

\* The Registry operations of thread t.
Operation(t) ==
  \/ \E a \in BusAddr, c \in 1..MaxChan : CallSetChannel(t, a, c)
  \/ \E a \in BusAddr : CallResetMux(t, a)
  \/ CallScan(t)
  \/ Acquire(t)
  \/ Clear(t)
  \/ Write(t)
  \/ WriteFails(t)
  \/ Wait(t)

\* --- SpecTransport: one caller at a time (what the mutex gives the transport),
\* next to the reader thread, the device and the link.
Caller == 1

NextTransport ==
  \/ Operation(Caller)
  \/ CallTest(Caller)
  \/ Connect(Caller)
  \/ StartAgain(Caller)
  \/ Disconnect(Caller)
  \/ ReaderDeliver
  \/ ReaderIOError
  \/ LinkDown
  \/ LinkUp

InitT == InitTransport /\ InitCallers

SpecTransport == InitT /\ [][NextTransport]_vars

\* --- SpecRegistry: the callers of a connected Registry as concurrent threads.
InitConnected ==
  /\ ser = "open" /\ is_running = TRUE /\ stop_event = FALSE /\ readers = 1
  /\ response_queue = <<>> /\ wire = <<>> /\ link = "up"

NextRegistry ==
  \/ \E t \in Thread : Operation(t)
  \/ ReaderDeliver
  \/ ReaderIOError
  \/ LinkDown

InitR == InitConnected /\ InitCallers

SpecRegistry == InitR /\ [][NextRegistry]_vars

\* --- SpecMutex: two callers of a connected Registry under a fair scheduler.
\* One makes the scans and the sets and resets of address 1, the other reads
\* the states and sets the channel of address 1.  A thread inside an operation
\* is given its next step (the wait of _send_command ends at its timeout at
\* the latest), and a thread that waits for the mutex is not passed over for
\* ever.
Scanner == 1
Reader  == 2

NextMutex ==
  \/ CallScan(Scanner)
  \/ CallSetChannel(Scanner, 1, 1)
  \/ CallResetMux(Scanner, 1)
  \/ CallGetStates(Reader)
  \/ CallSetChannel(Reader, 1, 1)
  \/ \E t \in Thread : Acquire(t)
  \/ \E t \in Thread : Clear(t)
  \/ \E t \in Thread : Write(t)
  \/ \E t \in Thread : WriteFails(t)
  \/ \E t \in Thread : Wait(t)
  \/ CopyStates(Reader)
  \/ ReaderDeliver
  \/ LinkDown

Progress(t) == Clear(t) \/ Write(t) \/ WriteFails(t) \/ Wait(t) \/ CopyStates(t)

SpecMutex ==
  /\ InitR /\ [][NextMutex]_vars
  /\ \A t \in Thread : WF_vars(Progress(t)) /\ SF_vars(Acquire(t))

\* --- SpecStatus: SerialCommunicator.set_channel and reset_mux as functions of
\* what _send_command returned, over every response of up to MaxTokens tokens.
MaxTokens == 2
StatusToken == {0, 1, 2, 3, NaN, Sup2}

RECURSIVE Lines(_)
Lines(n) ==
  IF n = 0 THEN {}
  ELSE {<<k>> : k \in StatusToken}
       \cup {Append(l, k) : l \in Lines(n - 1), k \in StatusToken}

StatusInput == {NoResponse} \cup {Response(l) : l \in Lines(MaxTokens)}

\* What set_channel / reset_mux of the transport hands to DeviceController:
\* a status, or the ValueError of int().
RetStatus(o, r) ==
  IF parse_status(r) = ValueError
  THEN [RetRaised(o) EXCEPT !.exchanged = TRUE, !.resp = r]
  ELSE [kind |-> "status", of |-> o, val |-> FALSE, keys |-> {},
        exchanged |-> TRUE, resp |-> r, status |-> parse_status(r).name]

TransportSetChannel(a, c, r) ==
  /\ ret' = RetStatus(Cmd("SET", a, c), r)
  /\ dropped' = {}
  /\ UNCHANGED <<tvars, rvars, pc, op>>
  /\ NoServerStep

TransportResetMux(a, r) ==
  /\ ret' = RetStatus(Cmd("RST", a, 0), r)
  /\ dropped' = {}
  /\ UNCHANGED <<tvars, rvars, pc, op>>
  /\ NoServerStep

NextStatus ==
  \/ \E a \in BusAddr, c \in 1..MaxChan, r \in StatusInput : TransportSetChannel(a, c, r)
  \/ \E a \in BusAddr, r \in StatusInput : TransportResetMux(a, r)

SpecStatus == InitR /\ [][NextStatus]_vars

\* ------------------------------------------- the server program (Spec)
\* _send_command called from the event loop, from the call to its return: the
\* queue is drained, the command written, and the reader hands over the
\* answer of the device or the timeout passes.  The device of Spec answers
\* within the timeout or not at all, and a SET or RST with 0 or with a line
\* that is no number; SpecTransport has the answers that come late and, with
\* SpecRegistry, the answer 2.
ServerReplies(kind) == IF kind = "SCN" THEN ScanLine ELSE StatusLine \ {<<2>>}

SendCommand(kind) ==
  IF ser # "open"
  THEN {[raised |-> FALSE, wrote |-> FALSE, resp |-> NoResponse,
         queue |-> response_queue]}
  ELSE IF link = "down"
  THEN {[raised |-> TRUE, wrote |-> FALSE, resp |-> NoResponse, queue |-> <<>>]}
  ELSE {[raised |-> FALSE, wrote |-> TRUE, resp |-> NoResponse, queue |-> <<>>]}
       \cup
       {[raised |-> FALSE, wrote |-> TRUE, resp |-> Response(l), queue |-> <<>>] :
          l \in IF readers > 0 THEN ServerReplies(kind) ELSE {}}

\* A step of the event loop that calls no Registry operation.
NoCall ==
  [devices |-> devices, ret |-> RetNone, queue |-> response_queue,
   stop |-> FALSE, sent |-> <<>>]

\* The Registry operation o called from the event loop: every way it can end.
RegistryCall(o) ==
  IF o.kind = "SCN" /\ ~is_connected
  THEN {[NoCall EXCEPT !.ret = RetNoList(o)]}
  ELSE IF o.kind # "SCN" /\ o.addr \notin DOMAIN devices
  THEN {[NoCall EXCEPT !.ret = RetEarly(o)]}
  ELSE {IF x.raised
        THEN [devices |-> devices,
              ret     |-> IF o.kind = "SCN" THEN RetCaught(o) ELSE RetRaised(o),
              queue   |-> x.queue,
              stop    |-> o.kind = "SCN", sent |-> <<>>]
        ELSE [devices |-> Completed(o, devices, x.resp).devices,
              ret     |-> Completed(o, devices, x.resp).ret,
              queue   |-> x.queue,
              stop    |-> Completed(o, devices, x.resp).stop,
              sent    |-> IF x.wrote THEN <<o>> ELSE <<>>]
        : x \in SendCommand(o.kind)}

\* What a step of the event loop does to the Registry and the transport: y is
\* the end of its Registry call, halt says the program shuts the transport.
Effect(y, halt) ==
  /\ devices' = y.devices
  /\ ret' = y.ret
  /\ response_queue' = y.queue
  /\ sent' = y.sent
  /\ dropped' = {}
  /\ IF y.stop \/ halt THEN StopTransport
     ELSE UNCHANGED <<ser, is_running, stop_event, readers>>
  /\ UNCHANGED <<wire, link, lock, pc, op>>

\* --- the mirror
Attributes(d) ==
  [ActiveChannel |-> d.active_channel, LastOperationStatus |-> d.last_status]

\* mux_nodes replaced by the new entry instead of extended with it.
add_node_alone(nodes, a) == {a}

\* `self.mux_nodes[address] = mux_obj`
add_node(nodes, a) == nodes \cup {a}

\* _create_mux_node: the attributes of the entry of a, left alone if it exists.
create_mux_node(m, nodes, devs, a) ==
  IF a \in nodes THEN m
  ELSE (a :> Attributes(IF a \in DOMAIN devs THEN devs[a] ELSE MuxDevice)) @@ m

\* _create_mux_node: the triggers of the entry of a.
create_triggers(t, nodes, a) ==
  IF a \in nodes THEN t ELSE (a :> [SetChannel |-> 0, Reset |-> FALSE]) @@ t

\* _update_mux_variables reading the Device as _create_mux_node does, with
\* `devices.get(address, MuxDevice(address))`.
update_mux_variables_with_default(m, nodes, devs, a) ==
  IF a \in nodes
  THEN [m EXCEPT ![a] = Attributes(IF a \in DOMAIN devs THEN devs[a] ELSE MuxDevice)]
  ELSE m

\* _update_mux_variables
update_mux_variables(m, nodes, devs, a) ==
  IF a \in nodes /\ a \in DOMAIN devs
  THEN [m EXCEPT ![a] = Attributes(devs[a])]
  ELSE m

\* `if val == current_state.active_channel:` in _handle_set_channel_event
is_redundant(val, active_channel) == val = active_channel

\* The trigger written back at the end of the `try:` body instead of in a
\* `finally:`.
reset_trigger_unless_raised(t, a, node, raised) ==
  IF raised THEN t
  ELSE [t EXCEPT ![a][node] = IF node = "SetChannel" THEN 0 ELSE FALSE]

\* The `finally:` of _handle_set_channel_event / _handle_reset_event: the
\* trigger goes back to its sentinel, whether or not the body raised.
reset_trigger(t, a, node, raised) ==
  [t EXCEPT ![a][node] = IF node = "SetChannel" THEN 0 ELSE FALSE]

\* MuxBoardCount written with the number of Devices of the Registry.
update_mux_count_of_devices(nodes, devs) == Cardinality(DOMAIN devs)

\* _update_mux_count: `count = len(self.mux_nodes)`
update_mux_count(nodes, devs) == Cardinality(nodes)

\* --- main() and OpcUaServer.start
\* main(): `if not controller.connect(): return`
MainConnect ==
  /\ phase = "boot"
  /\ IF link = "up"
     THEN StartTransport /\ phase' = "connected" /\ ret' = RetConnect(TRUE)
     ELSE /\ UNCHANGED <<ser, is_running, stop_event, readers>>
          /\ phase' = "stopped" /\ ret' = RetConnect(FALSE)
  /\ dropped' = {} /\ sent' = <<>> /\ handled' = NoEvent /\ hist' = NoWrite
  /\ pass' = NoPass("no")
  /\ UNCHANGED <<response_queue, wire, link, rvars, pc, op>>
  /\ UNCHANGED <<monitor, mux_nodes, mirror, trig, subscribed,
                 gateway_status, mux_count, srv_running, events>>

\* The end of start(): the subscription on the triggers created so far, the
\* running flag, the reconnection monitor.
StartComplete(nodes) ==
  /\ subscribed' = nodes
  /\ srv_running' = TRUE
  /\ monitor' = "sleeping"
  /\ phase' = "serving"

\* start() up to the scan of _initial_scan_and_populate, and to its end when
\* the scan finds nothing.
ServerStart ==
  /\ phase = "connected"
  /\ gateway_status' = IF is_connected THEN "Connected" ELSE "Disconnected"
  /\ IF ~is_connected
     THEN /\ Effect(NoCall, FALSE)
          /\ pass' = NoPass("returned")
          /\ StartComplete(mux_nodes)
          /\ UNCHANGED mux_count
     ELSE \E y \in RegistryCall(Cmd("SCN", 0, 0)) :
            /\ Effect(y, FALSE)
            /\ IF y.ret.keys = {}
               THEN /\ pass' = NoPass("returned")
                    /\ mux_count' = update_mux_count(mux_nodes, y.devices)
                    /\ StartComplete(mux_nodes)
               ELSE /\ pass' = Pass("initial", y.ret.keys)
                    /\ phase' = "starting"
                    /\ UNCHANGED <<subscribed, srv_running, monitor, mux_count>>
  /\ handled' = NoEvent /\ hist' = NoWrite
  /\ UNCHANGED <<mux_nodes, mirror, trig, events>>

\* A pass that gives up at the first reset that did not succeed.
pass_aborts_on_failure(r) == r.kind = "raised" \/ ~r.val

\* The loop of a pass has no try/except and does not look at what reset_mux
\* returns: only an exception out of reset_mux ends it early.
pass_aborts(r) == r.kind = "raised"

\* One turn of the loop of a reconciliation pass (_initial_scan_and_populate,
\* _rescan_handler): the entry is created, the board reset, its attributes
\* refreshed.  reset_mux raising ends the pass: start() fails and main() shuts
\* down, a rescan request fails, the monitor task dies.
PassStep ==
  /\ pass.kind # "none"
  /\ \E a \in pass.todo :
       LET nodes   == add_node(mux_nodes, a)
           created == create_mux_node(mirror, mux_nodes, devices, a)
       IN  \E y \in RegistryCall(Cmd("RST", a, 0)) :
             LET raised == pass_aborts(y.ret)
                 left   == pass.todo \ {a}
             IN  /\ Effect(y, raised /\ pass.kind = "initial")
                 /\ mux_nodes' = nodes
                 /\ trig' = create_triggers(trig, mux_nodes, a)
                 /\ mux_count' = update_mux_count(nodes, devices)
                 /\ mirror' = IF raised THEN created
                              ELSE update_mux_variables(created, nodes, y.devices, a)
                 /\ IF raised
                    THEN /\ pass' = NoPass("raised")
                         /\ phase' = IF pass.kind = "initial" THEN "stopped" ELSE phase
                         /\ monitor' = IF pass.kind = "reconnect" THEN "dead" ELSE monitor
                         /\ UNCHANGED <<subscribed, srv_running>>
                    ELSE IF left # {}
                    THEN /\ pass' = Pass(pass.kind, left)
                         /\ UNCHANGED <<phase, monitor, subscribed, srv_running>>
                    ELSE /\ pass' = NoPass("returned")
                         /\ IF pass.kind = "initial" THEN StartComplete(nodes)
                            ELSE /\ monitor' = IF pass.kind = "reconnect"
                                               THEN "sleeping" ELSE monitor
                                 /\ UNCHANGED <<phase, subscribed, srv_running>>
  /\ handled' = NoEvent /\ hist' = NoWrite
  /\ UNCHANGED <<gateway_status, events>>

\* _rescan_handler, called by a client, up to its loop.
RescanRequest ==
  /\ phase = "serving" /\ pass.kind = "none" /\ monitor # "rescan"
  /\ \E y \in RegistryCall(Cmd("SCN", 0, 0)) :
       LET todo == y.ret.keys \ mux_nodes
       IN  /\ Effect(y, FALSE)
           /\ pass' = IF todo = {} THEN NoPass("returned")
                      ELSE Pass("rescan", todo)
  /\ handled' = NoEvent /\ hist' = NoWrite
  /\ UNCHANGED <<phase, monitor, mux_nodes, mirror, trig, subscribed,
                 gateway_status, mux_count, srv_running, events>>

\* _connection_monitor with no `else:` after `if self.controller.connect():`.
status_after_connect_no_else(status, ok) == IF ok THEN "Connected" ELSE status

\* _connection_monitor: the status written after connect() returned ok.
status_after_connect(status, ok) == IF ok THEN "Connected" ELSE "Disconnected"

\* _connection_monitor, a wake-up that finds the Registry not connected, up
\* to `await self._update_gateway_status("Reconnecting")`.
MonitorWake ==
  /\ phase = "serving" /\ monitor = "sleeping" /\ pass.kind = "none"
  /\ ~is_connected
  /\ gateway_status' = "Reconnecting"
  /\ monitor' = "reconnecting"
  /\ Effect(NoCall, FALSE)
  /\ handled' = NoEvent /\ hist' = NoWrite
  /\ pass' = NoPass("no")
  /\ UNCHANGED <<phase, mux_nodes, mirror, trig, subscribed,
                 mux_count, srv_running, events>>

\* _connection_monitor: connect(), then "Connected" and on to the rescan, or
\* "Disconnected" and back to sleep until the next interval.
MonitorConnect ==
  /\ phase = "serving" /\ monitor = "reconnecting"
  /\ IF link = "up"
     THEN /\ StartTransport /\ ret' = RetConnect(TRUE)
          /\ monitor' = "rescan"
     ELSE /\ UNCHANGED <<ser, is_running, stop_event, readers>>
          /\ ret' = RetConnect(FALSE)
          /\ monitor' = "sleeping"
  /\ gateway_status' = status_after_connect(gateway_status, link = "up")
  /\ dropped' = {} /\ sent' = <<>> /\ handled' = NoEvent /\ hist' = NoWrite
  /\ pass' = [pass EXCEPT !.ended = "no"]
  /\ UNCHANGED <<response_queue, wire, link, rvars, pc, op>>
  /\ UNCHANGED <<phase, mux_nodes, mirror, trig, subscribed,
                 mux_count, srv_running, events>>

\* _connection_monitor: the rescan after a successful reconnection, up to
\* the loop of _rescan_handler.
MonitorRescan ==
  /\ phase = "serving" /\ monitor = "rescan" /\ pass.kind = "none"
  /\ \E y \in RegistryCall(Cmd("SCN", 0, 0)) :
       LET todo == y.ret.keys \ mux_nodes
       IN  /\ Effect(y, FALSE)
           /\ pass' = IF todo = {} THEN NoPass("returned")
                      ELSE Pass("reconnect", todo)
           /\ monitor' = IF todo = {} THEN "sleeping" ELSE monitor
  /\ handled' = NoEvent /\ hist' = NoWrite
  /\ UNCHANGED <<phase, mux_nodes, mirror, trig, subscribed,
                 gateway_status, mux_count, srv_running, events>>

\* --- remote writes and SubHandler
\* The values clients wrote to triggers the subscription does not hold: no
\* handler will ever put these triggers back to their sentinel.
Unwatched(t, nodes, subs) ==
  Cardinality({a \in nodes \ subs : t[a].SetChannel # 0})
    + Cardinality({a \in nodes \ subs : t[a].Reset})

\* A subscription that follows nodes_to_monitor: every write a client makes
\* to a trigger is notified, whenever its entry was created.
RemoteWrite_notifying_all ==
  /\ phase = "serving"
  /\ \E a \in mux_nodes :
       \E e \in {SetEvent(a, v) : v \in Chan} \cup {ResetEvent(a, b) : b \in BOOLEAN} :
         /\ trig' = [trig EXCEPT ![a][e.node] =
                       IF e.node = "SetChannel" THEN e.val ELSE e.flag]
         /\ events' = Append(events, e)
         /\ Len(events') + Unwatched(trig', mux_nodes, subscribed) <= MaxEvents
  /\ Effect(NoCall, FALSE)
  /\ handled' = NoEvent
  /\ hist' = IF hist.addr # 0 /\ trig'[hist.addr].SetChannel = hist.val
             THEN hist ELSE NoWrite
  /\ pass' = [pass EXCEPT !.ended = "no"]
  /\ UNCHANGED <<phase, monitor, mux_nodes, mirror, subscribed,
                 gateway_status, mux_count, srv_running>>

\* A client writes a trigger of an entry: the value is stored, and the data
\* change is queued when the subscription holds the trigger (the triggers
\* that were in nodes_to_monitor when start() called subscribe_data_change).
\* At most MaxEvents written values wait at a time, queued or not.
RemoteWrite ==
  /\ phase = "serving"
  /\ \E a \in mux_nodes :
       \E e \in {SetEvent(a, v) : v \in Chan} \cup {ResetEvent(a, b) : b \in BOOLEAN} :
         /\ trig' = [trig EXCEPT ![a][e.node] =
                       IF e.node = "SetChannel" THEN e.val ELSE e.flag]
         /\ events' = IF a \in subscribed THEN Append(events, e) ELSE events
         /\ Len(events') + Unwatched(trig', mux_nodes, subscribed) <= MaxEvents
  /\ Effect(NoCall, FALSE)
  /\ handled' = NoEvent
  /\ hist' = IF hist.addr # 0 /\ trig'[hist.addr].SetChannel = hist.val
             THEN hist ELSE NoWrite
  /\ pass' = [pass EXCEPT !.ended = "no"]
  /\ UNCHANGED <<phase, monitor, mux_nodes, mirror, subscribed,
                 gateway_status, mux_count, srv_running>>

\* _handle_reset_event without its `if not val: return`.
IsSentinel_of_SetChannel_only(e) == e.node = "SetChannel" /\ e.val = 0

\* The value of a notification is the sentinel of its trigger.
IsSentinel(e) == IF e.node = "SetChannel" THEN e.val = 0 ELSE ~e.flag

\* datachange_notification that pushes the Device's state to the entry before
\* it returns on a sentinel value.
DeliverIgnored_pushing_state ==
  /\ phase \in {"serving", "stopping"} /\ events # <<>>
  /\ ~srv_running \/ IsSentinel(Head(events))
  /\ events' = Tail(events)
  /\ handled' = Head(events)
  /\ hist' = IF Head(events).own THEN hist ELSE NoWrite
  /\ Effect(NoCall, FALSE)
  /\ pass' = [pass EXCEPT !.ended = "no"]
  /\ mirror' = update_mux_variables(mirror, mux_nodes, devices, Head(events).addr)
  /\ UNCHANGED <<phase, monitor, mux_nodes, trig, subscribed,
                 gateway_status, mux_count, srv_running>>

\* datachange_notification that handles nothing: the server not running yet,
\* `if val == 0: return`, `if not val: return`.
DeliverIgnored ==
  /\ phase \in {"serving", "stopping"} /\ events # <<>>
  /\ ~srv_running \/ IsSentinel(Head(events))
  /\ events' = Tail(events)
  /\ handled' = Head(events)
  /\ hist' = IF Head(events).own THEN hist ELSE NoWrite
  /\ Effect(NoCall, FALSE)
  /\ pass' = [pass EXCEPT !.ended = "no"]
  /\ UNCHANGED <<phase, monitor, mux_nodes, mirror, trig, subscribed,
                 gateway_status, mux_count, srv_running>>

\* The SET lines among the command lines a step wrote.
Sets(lines) == Cardinality({i \in 1..Len(lines) : lines[i].kind = "SET"})

\* datachange_notification -> _handle_set_channel_event for a non-zero value.
handle_set_channel_event ==
  /\ phase \in {"serving", "stopping"} /\ events # <<>> /\ srv_running
  /\ Head(events).node = "SetChannel" /\ ~IsSentinel(Head(events))
  /\ LET e == Head(events)
         a == e.addr
     IN  /\ handled' = e
         /\ \E y \in IF a \notin DOMAIN devices THEN {NoCall}
                     ELSE IF is_redundant(e.val, devices[a].active_channel)
                     THEN {NoCall}
                     ELSE RegistryCall(Cmd("SET", a, e.val)) :
              /\ Effect(y, FALSE)
              /\ mirror' = IF y.ret.kind = "bool"
                           THEN update_mux_variables(mirror, mux_nodes, y.devices, a)
                           ELSE mirror
              /\ trig' = reset_trigger(trig, a, "SetChannel", y.ret.kind = "raised")
              /\ hist' = [addr |-> a, val |-> e.val, sets |-> Sets(y.sent),
                          status |-> y.ret.status]
  /\ events' = Append(Tail(events), Echo(Head(events)))
  /\ pass' = [pass EXCEPT !.ended = "no"]
  /\ UNCHANGED <<phase, monitor, mux_nodes, subscribed,
                 gateway_status, mux_count, srv_running>>

\* datachange_notification -> _handle_reset_event for a truthy value.
handle_reset_event ==
  /\ phase \in {"serving", "stopping"} /\ events # <<>> /\ srv_running
  /\ Head(events).node = "Reset" /\ ~IsSentinel(Head(events))
  /\ LET e == Head(events)
         a == e.addr
     IN  /\ handled' = e
         /\ \E y \in RegistryCall(Cmd("RST", a, 0)) :
              /\ Effect(y, FALSE)
              /\ mirror' = IF y.ret.kind = "raised" THEN mirror
                           ELSE update_mux_variables(mirror, mux_nodes, y.devices, a)
              /\ trig' = reset_trigger(trig, a, "Reset", y.ret.kind = "raised")
  /\ events' = Append(Tail(events), Echo(Head(events)))
  /\ hist' = NoWrite
  /\ pass' = [pass EXCEPT !.ended = "no"]
  /\ UNCHANGED <<phase, monitor, mux_nodes, subscribed,
                 gateway_status, mux_count, srv_running>>

\* main(): the shutdown signal and the `finally:` up to the first await of
\* server.stop(): the monitor task is cancelled and awaited.  Awaiting a task
\* that already ended on an exception raises that exception again: stop()
\* and the `finally:` of main() end there, before controller.disconnect().
\* stop() leaves OpcUaServer.is_running as it is.
Shutdown ==
  /\ phase \in {"starting", "serving"}
  /\ phase' = IF monitor = "dead" THEN "stopped" ELSE "stopping"
  /\ monitor' = IF monitor \in {"sleeping", "reconnecting", "rescan"}
                THEN "cancelled" ELSE monitor
  /\ pass' = NoPass("no")
  /\ Effect(NoCall, FALSE)
  /\ handled' = NoEvent /\ hist' = NoWrite
  /\ UNCHANGED <<mux_nodes, mirror, trig, subscribed, gateway_status,
                 mux_count, srv_running, events>>

\* The rest of the shutdown: `await self.server.stop()` has ended the OPC UA
\* server, then controller.disconnect().
ShutdownComplete ==
  /\ phase = "stopping"
  /\ phase' = "stopped"
  /\ pass' = NoPass("no")
  /\ Effect(NoCall, TRUE)
  /\ handled' = NoEvent /\ hist' = NoWrite
  /\ UNCHANGED <<monitor, mux_nodes, mirror, trig, subscribed, gateway_status,
                 mux_count, srv_running, events>>

\* The link as the program meets it: it is followed until the shutdown
\* begins; the shutdown itself is short, and runs on the link as it is then.
LinkLost == phase \notin {"stopping", "stopped"} /\ LinkDown
LinkBack == phase \notin {"stopping", "stopped"} /\ LinkUp

Next ==
  \/ MainConnect
  \/ ServerStart
  \/ PassStep
  \/ RescanRequest
  \/ MonitorWake
  \/ MonitorConnect
  \/ MonitorRescan
  \/ RemoteWrite
  \/ DeliverIgnored
  \/ handle_set_channel_event
  \/ handle_reset_event
  \/ Shutdown
  \/ ShutdownComplete
  \/ ReaderIOError
  \/ LinkLost
  \/ LinkBack

Spec == InitT /\ [][Next]_vars

\* ------------------------------------------------------------------ claims
InFlight == {"clear", "write", "wait"}

\* C1: after every reconciliation pass that returned (the startup pass, a
\* rescan pass a client asked for, the rescan pass after a reconnection),
\* every address the Registry holds is a mirrored address.
C1_RegistryMirroredAfterPass ==
  pass.ended = "returned" => DOMAIN devices \subseteq mux_nodes

\* C2: no step removes a mirror entry: the mirrored addresses, and the
\* entries that carry their attributes and triggers, only grow.
C2_MirrorOnlyGrows ==
  [][/\ mux_nodes \subseteq mux_nodes'
     /\ DOMAIN mirror \subseteq DOMAIN mirror'
     /\ DOMAIN trig \subseteq DOMAIN trig']_vars

\* C2, its case: the server is serving and the entry of a Device that has
\* disappeared from the Registry is still there.
C2_StaleEntryKept ==
  /\ phase = "serving"
  /\ \E a \in mux_nodes : a \notin DOMAIN devices /\ a \in DOMAIN mirror

\* The step just taken ended a SET or RST call that reached the transport.
CommandEnded(r) == r.kind = "bool" /\ r.exchanged /\ r.of.kind \in {"SET", "RST"}

\* C3: for a Device that stays in the Registry, active_channel is the same
\* after a step as before it unless the step ends a SET or RST on that very
\* address for which the transport returned SUCCESS: no scan, no command to
\* another address and no other status changes it.
C3_ChannelChangesOnlyOnSuccess ==
  [][\A a \in DOMAIN devices \cap DOMAIN devices' :
       devices'[a].active_channel # devices[a].active_channel
         => /\ CommandEnded(ret')
            /\ ret'.of.addr = a
            /\ ret'.status = "SUCCESS"]_vars

\* C3, its case: a SET of a channel the Device is not on has ended with a
\* status that is not SUCCESS, and the Device is on the channel it was on.
C3_FailedSetKeepsChannel ==
  /\ CommandEnded(ret) /\ ret.of.kind = "SET" /\ ret.status = "ADDR_ERROR"
  /\ ret.of.addr \in DOMAIN devices
  /\ devices[ret.of.addr].active_channel # ret.of.chan

\* C4: at most one Registry operation is inside _send_command at any time,
\* and it is the one that holds the mutex: no command line is written while
\* another operation is between its write and its response or timeout.
C4_OneExchangeInFlight ==
  \A t, u \in Thread :
    pc[t] \in InFlight /\ pc[u] \in InFlight => t = u /\ lock = t

\* C4, its case: one caller waits for its response while another has made
\* its call and waits for the mutex.
C4_CallerWaitsForMutex ==
  \E t, u \in Thread : pc[t] = "wait" /\ pc[u] = "lock" /\ lock = t

\* C5: _send_command whose wait finds no line before the timeout returns no
\* response, and a line the stale-response discard removes is never a line the
\* device sent in answer to the command of the exchange under way.
C5_TimeoutAndStaleDiscard ==
  [][/\ dropped' \subseteq {0}
     /\ pc[Caller] = "wait" /\ pc'[Caller] = "idle" /\ response_queue = <<>>
          => ret'.exchanged /\ ~ret'.resp.got]_vars

\* C5, its case: the discard at the start of a command has removed the late
\* line of an exchange that timed out.
C5_LateLineDiscarded ==
  dropped = {0} /\ pc[Caller] = "write"

\* C7: a SET or RST on a known address whose status is not SUCCESS returns
\* false, leaves active_channel as it was and sets last_status to the name of
\* the status.
C7_FailureKeepsChannelSetsStatus ==
  [][CommandEnded(ret') /\ ret'.status # "SUCCESS"
       => /\ ret'.val = FALSE
          /\ ret'.of.addr \in DOMAIN devices /\ ret'.of.addr \in DOMAIN devices'
          /\ devices'[ret'.of.addr].active_channel
               = devices[ret'.of.addr].active_channel
          /\ devices'[ret'.of.addr].last_status = ret'.status]_vars

\* C7, its case: a command the device answered with 2 has returned false and
\* the Device reads ADDR_ERROR.
C7_AddrErrorRecorded ==
  /\ CommandEnded(ret) /\ ret.resp = Response(<<2>>) /\ ~ret.val
  /\ devices[ret.of.addr].last_status = "ADDR_ERROR"

\* C8: of two consecutive SetChannel writes of the same non-zero value on the
\* entry of a registered Device, the first answered SUCCESS by the transport,
\* exactly one makes a SET command.
C8_SameWriteTwiceOneSet ==
  [][(/\ handled'.node = "SetChannel" /\ handled'.val # 0
      /\ hist.addr = handled'.addr /\ hist.val = handled'.val
      /\ hist.status = "SUCCESS")
       => hist.sets + hist'.sets = 1]_vars

\* C10: when the handling of a non-zero SetChannel write has ended the
\* SetChannel trigger of the entry holds 0, and when the handling of a truthy
\* Reset write has ended the Reset trigger holds false: whether the command
\* succeeded, failed, the Device was unknown or the Registry raised.
C10_TriggerBackToSentinel ==
  /\ handled.node = "SetChannel" /\ handled.val # 0
       => trig[handled.addr].SetChannel = 0
  /\ handled.node = "Reset" /\ handled.flag
       => trig[handled.addr].Reset = FALSE

\* C10, its case: the Registry raised while a write was handled, and the
\* trigger holds its sentinel.
C10_SentinelAfterException ==
  /\ handled.node \in {"SetChannel", "Reset"} /\ ~IsSentinel(handled)
  /\ ret.kind = "raised"
  /\ trig[handled.addr].SetChannel = 0 /\ trig[handled.addr].Reset = FALSE

\* The step just taken handled a client's write of a value that is not the
\* sentinel, on the trigger `node` of a registered and mirrored address.
WriteHandled(node) ==
  /\ handled.node = node /\ ~IsSentinel(handled)
  /\ handled.addr \in DOMAIN devices /\ handled.addr \in mux_nodes

\* C11: when the handling of a SetChannel or Reset write on a registered,
\* mirrored address has ended, ActiveChannel and LastOperationStatus of the
\* entry are active_channel and last_status of the Device, whether the
\* command succeeded or failed.
C11_MirrorEqualsRegistryAfterWrite ==
  WriteHandled("SetChannel") \/ WriteHandled("Reset")
    => mirror[handled.addr] = Attributes(devices[handled.addr])

\* The step handles a Reset write of value b on the entry of a registered
\* address.
ResetWriteHandled(b) ==
  /\ handled'.node = "Reset" /\ handled'.flag = b
  /\ handled'.addr \in DOMAIN devices

\* What a falsy Reset write must leave alone: the Registry, the transport and
\* every attribute of the mirror.
ResetFrame ==
  <<devices, tvars, mux_nodes, mirror, trig, gateway_status, mux_count>>

\* C12 as stated: a truthy Reset write on the entry of a registered address
\* writes exactly one RST line for that address, and a falsy Reset write
\* writes no line and changes no state.
C12_TruthyResetOneRST ==
  [][/\ ResetWriteHandled(TRUE) => sent' = <<Cmd("RST", handled'.addr, 0)>>
     /\ ResetWriteHandled(FALSE) => sent' = <<>> /\ UNCHANGED ResetFrame]_vars

\* C12, amended: a truthy Reset write on the entry of a registered address
\* writes exactly one RST line for that address when the port is open and the
\* link is up, and no line at all otherwise (_send_command returns None on a
\* port that is not open, ser.write raises on a lost link); a falsy Reset
\* write writes no line and changes no state.
C12_TruthyResetOneRSTWhenLinked ==
  [][/\ ResetWriteHandled(TRUE)
          => sent' = IF ser = "open" /\ link = "up"
                     THEN <<Cmd("RST", handled'.addr, 0)>> ELSE <<>>
     /\ ResetWriteHandled(FALSE) => sent' = <<>> /\ UNCHANGED ResetFrame]_vars

\* C12, its case: a truthy Reset write on a registered address has been
\* handled and one RST line for that address was written.
C12_ResetWritten ==
  /\ WriteHandled("Reset")
  /\ sent = <<Cmd("RST", handled.addr, 0)>>

\* C13: handling a SetChannel write of value 0 writes no command line and
\* leaves the Registry, the transport and every attribute of the mirror (the
\* entries, ActiveChannel, LastOperationStatus, the triggers, the gateway's
\* status and count) as they were.
C13_ZeroSetChannelIgnored ==
  [][handled'.node = "SetChannel" /\ handled'.val = 0
       => /\ sent' = <<>>
          /\ UNCHANGED <<devices, tvars, mux_nodes, mirror, trig,
                         gateway_status, mux_count>>]_vars

\* C13, its case: a SetChannel write of 0 on the entry of a registered address
\* has been handled while the entry shows another status than the Device has,
\* and still shows it.
C13_ZeroWriteHandled ==
  /\ handled.node = "SetChannel" /\ handled.val = 0
  /\ handled.addr \in DOMAIN devices /\ handled.addr \in mux_nodes
  /\ mirror[handled.addr] # Attributes(devices[handled.addr])

\* C14: the step in which the reader thread observes an I/O error stops the
\* transport (running flag false, port closed, stop signalled) and leaves the
\* connectivity the Registry reports false.
C14_ReaderErrorStopsTransport ==
  [][ReaderIOError
       => ~is_running' /\ ser' # "open" /\ stop_event' /\ ~is_connected']_vars

\* The reader thread of a started transport has ended on an I/O error while
\* the server is serving: the port is open and no reader is left.
ReaderEndedMidSession ==
  phase = "serving" /\ ser = "open" /\ readers = 0

\* C15: once the reader has raised an I/O error mid-session, the reconnection
\* monitor's next wake-up finds the Registry not connected and runs its
\* iteration ("Reconnecting", connect(), "Connected" and the rescan pass once
\* connect() succeeds, "Disconnected" until then), without any remote request.
C15_MonitorReconnectsAfterReaderError ==
  ReaderEndedMidSession /\ monitor = "sleeping" /\ pass.kind = "none"
    => ENABLED MonitorWake

\* C16: a wake-up of the reconnection monitor that finds the Registry not
\* connected sets GatewayStatus to "Reconnecting"; the iteration ends with
\* "Connected" when connect() returned true and with "Disconnected" when it
\* returned false, and after a failure the monitor sleeps until its next
\* interval with the Registry still not connected, so it connects again;
\* GatewayStatus reads "Reconnecting" only while the iteration is under way
\* (or was cancelled under way by the shutdown).
C16_ReconnectingEndsConnectedOrDisconnected ==
  [][/\ MonitorWake => gateway_status' = "Reconnecting"
     /\ MonitorConnect
          => /\ ret'.of.kind = "CON"
             /\ ret'.val = is_connected'
             /\ gateway_status' = IF ret'.val THEN "Connected" ELSE "Disconnected"
             /\ ~ret'.val => monitor' = "sleeping"
     /\ gateway_status' = "Reconnecting"
          => monitor' \in {"reconnecting", "cancelled"}]_vars

\* C16, its case: an iteration whose connect() failed has ended with
\* "Disconnected" and the monitor is back in its sleep, ready to try again.
C16_FailedIterationEnded ==
  /\ ret = RetConnect(FALSE) /\ phase = "serving"
  /\ gateway_status = "Disconnected" /\ monitor = "sleeping"
  /\ ENABLED MonitorWake

\* The step is the wait of _send_command ending on its timeout: no line was
\* in the queue.
TimedOut ==
  pc[Caller] = "wait" /\ pc'[Caller] = "idle" /\ response_queue = <<>>

\* C17: a SET, RST, SCN or TST whose _send_command times out returns without
\* a response and leaves the running flag, the port, the stop signal, the
\* reader and the link as they were: the Registry reports the same
\* connectivity after it as before.
C17_TimeoutKeepsConnectivity ==
  [][TimedOut
       => /\ ret'.of = op[Caller] /\ ~ret'.resp.got
          /\ UNCHANGED <<is_running, ser, stop_event, readers, link>>
          /\ is_connected' = is_connected]_vars

\* C17, its case: a scan has timed out on a running transport, and the
\* transport is still running with its port open.
C17_ScanTimedOutStillConnected ==
  /\ ret.of.kind = "SCN" /\ ret.kind = "list" /\ ret.exchanged /\ ~ret.resp.got
  /\ is_connected /\ ser = "open" /\ readers > 0 /\ link = "up"

\* The step ends a scan whose response line parsed into a list of
\* addresses, and the addresses of that line.
ScanSucceeded ==
  /\ ret'.of.kind = "SCN" /\ ret'.kind = "list" /\ ret'.exchanged
  /\ ret'.resp.got
  /\ \A i \in 1..Len(ret'.resp.line) : ret'.resp.line[i] # NaN
FoundBy(r) == {r.resp.line[i] : i \in 1..Len(r.resp.line)}

\* C18: after a scan whose response parsed into the list `found`, the keys
\* of the Registry are the set of found: a Device not found is gone, a Device
\* found and not known is new with active_channel 0 and last_status "IDLE", a
\* Device both known and found keeps its active_channel and last_status, and
\* the list returned is the resulting key set.
C18_ScanReplacesKeySet ==
  [][ScanSucceeded
       => /\ DOMAIN devices' = FoundBy(ret')
          /\ \A a \in FoundBy(ret') \ DOMAIN devices : devices'[a] = MuxDevice
          /\ \A a \in FoundBy(ret') \cap DOMAIN devices : devices'[a] = devices[a]
          /\ ret'.keys = DOMAIN devices']_vars

\* C18, its case: a scan has found a Device that was known, which keeps the
\* status of its last command, and one that was not, which is new.
C18_KnownKeptNewCreated ==
  /\ ret.of.kind = "SCN" /\ ret.kind = "list" /\ ret.keys = {1, 2}
  /\ devices[1].last_status \notin {"IDLE"}
  /\ devices[2] = MuxDevice

\* The step ends a scan for which scan_i2c_bus returned None: _send_command
\* gave no line, or a line with a token that is no number.
ScanFailed ==
  /\ ret'.of.kind = "SCN" /\ ret'.kind = "list" /\ ret'.exchanged
  /\ \/ ~ret'.resp.got
     \/ \E i \in 1..Len(ret'.resp.line) : ret'.resp.line[i] = NaN

\* C19: a scan for which the transport reports None (timeout, unparseable
\* line) is a scan that found nothing: scan_for_devices returns the empty
\* list and the Registry holds no Device afterwards.
C19_FailedScanEmptiesRegistry ==
  [][ScanFailed => ret'.keys = {} /\ DOMAIN devices' = {}]_vars

\* C19, its case: a scan has ended on a line that is no address list and the
\* Registry is empty, while another caller waits for the mutex with a command
\* for a Device that was known when it made its call.
C19_KnownDeviceDropped ==
  /\ ret.of.kind = "SCN" /\ ret.kind = "list" /\ ret.resp = Response(<<NaN>>)
  /\ DOMAIN devices = {}
  /\ \E u \in Thread : pc[u] = "lock" /\ op[u].kind \in {"SET", "RST"}

\* The Registry reports connected again only through a connect() that
\* returned true.
ConnectedOnlyByConnect ==
  ~is_connected /\ is_connected' => ret' = RetConnect(TRUE)

\* C20 as stated: a scan for which the transport reports None stops the
\* transport, and the Registry reports not connected from then until
\* connect() is called again.
C20_FailedScanStopsTransport ==
  [][/\ ScanFailed => ~is_running' /\ ~is_connected'
     /\ ConnectedOnlyByConnect]_vars

\* C20, amended: a scan whose command could not be written (ser.write raises
\* on a lost link) stops the transport, and the Registry reports not connected
\* from then until connect() is called again; a scan for which the transport
\* reports None (timeout, unparseable line) leaves the transport as it was.
C20_RaisingScanStopsTransport ==
  [][/\ ret' = RetCaught(Cmd("SCN", 0, 0))
          => ~is_running' /\ ~is_connected' /\ ser' # "open" /\ readers' = 0
     /\ ScanFailed => UNCHANGED <<is_running, ser, stop_event, readers>>
     /\ ConnectedOnlyByConnect]_vars

\* C20, its case: the write of a scan has raised on a lost link and the
\* transport that was running is stopped.
C20_ScanRaisedTransportStopped ==
  /\ ret = RetCaught(Cmd("SCN", 0, 0))
  /\ ~is_connected /\ ser = "closed" /\ stop_event /\ link = "down"

\* C21: a set_channel or reset_mux call on an address that is no key of the
\* Registry goes no further than its check: it returns false in the very
\* step of the call, never reaches the mutex or _send_command, writes no
\* command line, and leaves the Registry and the transport as they were.
C21_UnknownAddressReturnsFalse ==
  [][\A t \in Thread :
       /\ pc[t] = "idle" /\ pc'[t] # "idle" /\ op'[t].kind \in {"SET", "RST"}
            => op'[t].addr \in DOMAIN devices
       /\ (/\ pc[t] = "idle" /\ ret'.kind = "bool"
           /\ ret'.of.kind \in {"SET", "RST"}
           /\ ret'.of.addr \notin DOMAIN devices)
            => /\ ret'.val = FALSE /\ ~ret'.exchanged
               /\ pc'[t] = "idle"
               /\ UNCHANGED <<devices, lock, tvars>>]_vars

\* C21, its case: a SET for an address the Registry does not hold has
\* returned false at once, on a running transport whose Registry holds
\* another Device.
C21_UnknownAddressRefused ==
  /\ ret = RetEarly(Cmd("SET", 2, 1))
  /\ DOMAIN devices = {1} /\ is_running /\ ser = "open" /\ link = "up"

\* C22: every set_channel, reset_mux and scan_for_devices call ends by
\* returning a boolean or a list, under every interleaving of the callers,
\* the reader and the link: none ends with an exception.
C22_RegistryNeverRaises ==
  ret.of.kind \in {"SET", "RST", "SCN"} => ret.kind \in {"bool", "list"}

\* C23: what a reader of the Registry finds once a SET or RST has released
\* the mutex (get_device_states taking it next, _update_mux_variables reading
\* the Device after the call) is never half of the command's update: when
\* last_status reads the SUCCESS of the command, active_channel is the channel
\* of the command (0 for a RST) and not the one from before it.
C23_NoPartialUpdateObserved ==
  (/\ CommandEnded(ret) /\ ret.status = "SUCCESS"
   /\ lock = 0 /\ ret.of.addr \in DOMAIN devices
   /\ devices[ret.of.addr].last_status = "SUCCESS")
    => devices[ret.of.addr].active_channel = ret.of.chan

\* The step just taken was the last turn of the startup pass: a pass returned
\* on a reset, and the subscription holds every entry (a later pass creates
\* entries the subscription does not hold).
StartedOnScan ==
  /\ phase = "serving" /\ pass.ended = "returned"
  /\ ret.of.kind = "RST" /\ mux_nodes \subseteq subscribed

\* C24: during the startup pass the scan's result S is the Registry's key set,
\* every Device with active_channel 0 and the ones not yet visited fresh; the
\* addresses mirrored so far and the ones left to visit split S; every turn
\* wrote exactly one RST line, for the address whose entry it created; and
\* when start() completes the mirrored addresses are exactly S, one entry
\* each, every Device and every entry with channel 0.
C24_StartupMirrorsScan ==
  /\ phase = "starting" =>
       /\ pass.kind = "initial" /\ pass.todo # {}
       /\ mux_nodes \cap pass.todo = {}
       /\ mux_nodes \cup pass.todo = DOMAIN devices
       /\ DOMAIN mirror = mux_nodes /\ mux_count = Cardinality(mux_nodes)
       /\ \A a \in pass.todo : devices[a] = MuxDevice
       /\ \A a \in mux_nodes :
            devices[a].active_channel = 0 /\ mirror[a].ActiveChannel = 0
       /\ ret.of.kind = "SCN" => mux_nodes = {} /\ ret.keys = DOMAIN devices
       /\ ret.of.kind = "RST" => sent = <<ret.of>> /\ ret.of.addr \in mux_nodes
  /\ StartedOnScan =>
       /\ mux_nodes = DOMAIN devices /\ subscribed = mux_nodes
       /\ DOMAIN mirror = mux_nodes /\ mux_count = Cardinality(mux_nodes)
       /\ sent = <<ret.of>> /\ ret.of.addr \in mux_nodes
       /\ \A a \in mux_nodes :
            devices[a].active_channel = 0 /\ mirror[a].ActiveChannel = 0

\* start() has just completed on a scan that found both addresses.
C24_StartedWithTwoBoards ==
  /\ phase = "serving" /\ pass.ended = "returned"
  /\ subscribed = {1, 2} /\ mux_nodes = {1, 2} /\ DOMAIN devices = {1, 2}
  /\ \E a \in {1, 2} : sent = <<Cmd("RST", a, 0)>>
  /\ \A a \in {1, 2} : mirror[a].ActiveChannel = 0

\* The notifications of entry a's triggers that wait to be handled.
Pending(a) == {events[i] : i \in {j \in 1..Len(events) : events[j].addr = a}}

\* C25 (as stated): the triggers of every entry are watched, the entries a
\* rescan pass created too: once the server serves, a trigger holding a value a
\* client wrote (not its sentinel) has the notification of that write waiting
\* for its handler.
C25_RescanEntryWatched ==
  phase = "serving" =>
    \A a \in mux_nodes :
      /\ a \in subscribed
      /\ trig[a].SetChannel # 0 => SetEvent(a, trig[a].SetChannel) \in Pending(a)
      /\ trig[a].Reset => ResetEvent(a, TRUE) \in Pending(a)

\* C25 (amended): the subscription is made once, when start() completes, and
\* holds the triggers of the entries created until then.  A write to a trigger
\* of an entry created later only stores the value: no notification is queued
\* or handled for that entry, and the step writes no command line and changes
\* neither the Registry nor the mirror attributes.
C25_RescanEntryNotWatched ==
  [][/\ phase = "serving" => subscribed' = subscribed
     /\ \A i \in 1..Len(events') : events'[i].addr \in subscribed'
     /\ handled'.addr # 0 => handled'.addr \in subscribed'
     /\ \A a \in mux_nodes \ subscribed :
          trig'[a] # trig[a]
            => /\ events' = events /\ sent' = <<>> /\ handled' = NoEvent
               /\ devices' = devices /\ mirror' = mirror]_vars

\* A client has written SetChannel = 1 on the entry a rescan created for the
\* registered address 2, and nothing waits to be handled.
C25_RescanEntryWritten ==
  /\ phase = "serving" /\ subscribed = {1} /\ mux_nodes = {1, 2}
  /\ 2 \in DOMAIN devices /\ is_running /\ ser = "open"
  /\ trig[2].SetChannel = 1 /\ events = <<>>

\* The step is a turn of a pass's loop whose reset_mux returned without
\* success: an error status, an unreadable answer or none at all.
ResetFailedInPass ==
  /\ pass.kind # "none" /\ pass' # pass
  /\ ret'.kind = "bool" /\ ret'.of.kind = "RST" /\ ret'.status # "SUCCESS"

\* C26: a turn of a reconciliation pass whose reset failed (non-SUCCESS status
\* or timeout) does not end the pass early: the address is mirrored and leaves
\* the addresses to visit, the others stay to be visited by the same pass, the
\* failure shows in that entry's LastOperationStatus, and no other entry and
\* no other Device changes.
C26_FailedResetKeepsPassGoing ==
  [][ResetFailedInPass =>
       LET a == ret'.of.addr
       IN  /\ a \in pass.todo /\ a \in mux_nodes'
           /\ pass'.ended # "raised"
           /\ pass'.todo = pass.todo \ {a}
           /\ pass.todo # {a} => pass'.kind = pass.kind
           /\ pass.todo = {a} => pass'.ended = "returned"
           /\ ret'.exchanged => mirror'[a].LastOperationStatus = ret'.status
           /\ \A b \in mux_nodes \ {a} : mirror'[b] = mirror[b] /\ trig'[b] = trig[b]
           /\ DOMAIN devices' = DOMAIN devices
           /\ \A b \in DOMAIN devices \ {a} : devices'[b] = devices[b]]_vars

\* The startup pass has returned: the reset of address 1 failed (status
\* UNKNOWN), and the pass went on to mirror and reset address 2.
C26_PassWentOnAfterFailure ==
  /\ phase = "serving" /\ pass.ended = "returned" /\ subscribed = {1, 2}
  /\ mirror[1].LastOperationStatus = "UNKNOWN"
  /\ sent = <<Cmd("RST", 2, 0)>> /\ mirror[2].LastOperationStatus = "SUCCESS"

\* C27: for an address that is mirrored and absent from the Registry, no step
\* (a remote write handled, a rescan, a pass) changes the entry's ActiveChannel
\* or LastOperationStatus or writes a command line for that address, and the
\* handling of a write on its triggers writes no command line at all and
\* leaves the Registry as it is.
C27_StaleEntryFrozen ==
  [][\A a \in mux_nodes \ DOMAIN devices :
       /\ mirror'[a] = mirror[a]
       /\ \A i \in 1..Len(sent') : sent'[i].addr # a
       /\ handled'.addr = a => sent' = <<>> /\ devices' = devices]_vars

\* A SetChannel = 1 write on the stale entry of address 1 has just been
\* handled, the transport running on a live link, and the entry still shows
\* the status of the reset made when it was created.
C27_StaleWriteHandled ==
  /\ handled = SetEvent(1, 1) /\ 1 \in mux_nodes /\ 1 \notin DOMAIN devices
  /\ is_running /\ ser = "open" /\ link = "up" /\ readers = 1
  /\ sent = <<>> /\ mirror[1].LastOperationStatus = "SUCCESS"

\* C28: the handling of a remote write on the entry of address a leaves the
\* Device, the mirror attributes and the triggers of every other address as
\* they were and keeps the Registry's key set, whether the command succeeded,
\* failed, timed out or raised.
C28_WriteTouchesOnlyItsAddress ==
  [][handled'.addr # 0 =>
       /\ DOMAIN devices' = DOMAIN devices
       /\ mux_nodes' = mux_nodes
       /\ \A b \in DOMAIN devices \ {handled'.addr} : devices'[b] = devices[b]
       /\ \A b \in mux_nodes \ {handled'.addr} :
            mirror'[b] = mirror[b] /\ trig'[b] = trig[b]]_vars

\* A SetChannel = 1 write on entry 1 has just been handled and its SET command
\* was answered with a line that is no status (UNKNOWN), shown by entry 1;
\* address 2 is registered and mirrored and still shows the status of its own
\* last reset.
C28_FailedWriteNextToOther ==
  /\ handled = SetEvent(1, 1) /\ sent = <<Cmd("SET", 1, 1)>>
  /\ ret.resp = Response(<<NaN>>) /\ ret.status = "UNKNOWN"
  /\ DOMAIN devices = {1, 2} /\ mux_nodes = {1, 2}
  /\ mirror[1].LastOperationStatus = "UNKNOWN"
  /\ devices[2].last_status = "SUCCESS" /\ mirror[2].LastOperationStatus = "SUCCESS"

\* C29: start() on a transport that is running changes nothing: the port
\* object, the running flag, the stop signal and the reader threads are the
\* ones there were.
C29_StartIdempotent ==
  [][(is_running /\ ret'.of.kind = "CON")
       => /\ UNCHANGED <<ser, is_running, stop_event>>
          /\ readers' = readers]_vars

\* C30: stop() on a transport that is not running changes nothing of it;
\* stop() on a running one leaves the stop signal set, no reader, the port
\* closed and the running flag false; and start() on a stopped transport
\* succeeds whenever the port can be opened, and leaves it running on an
\* open port with the stop signal cleared and exactly one reader.
C30_StopThenStart ==
  [][/\ (ret'.of.kind = "STP" /\ ~is_running)
          => UNCHANGED <<ser, is_running, stop_event, readers,
                         response_queue, wire, devices, lock>>
     /\ (ret'.of.kind = "STP" /\ is_running)
          => /\ stop_event' /\ readers' = 0
             /\ ser' = "closed" /\ ~is_running'
     /\ (ret'.of.kind = "CON" /\ ~is_running)
          => /\ ret'.val = (link = "up")
             /\ ret'.val => /\ is_running' /\ ser' = "open"
                            /\ ~stop_event' /\ readers' = 1]_vars

\* stop() has just returned on a transport that was running.
C30_Stopped ==
  /\ ret = RetStop /\ ~is_running /\ ser = "closed" /\ stop_event /\ readers = 0

\* C31: once the shutdown has begun no remote write is acted on (a
\* notification handled from then on is at most ignored), the monitor task
\* has ended before controller.disconnect() and never runs again, and the
\* shutdown ends with the transport stopped.
C31_ShutdownOrder ==
  /\ phase \in {"stopping", "stopped"}
       => /\ handled.addr # 0 => IsSentinel(handled)
          /\ monitor \in {"none", "cancelled", "dead"}
  /\ phase = "stopped" => ~is_running

\* C32: a connect() that fails does not end the program: after it, at startup
\* as in the monitor, the program goes on (to start the server, or serving
\* with the monitor asleep until its next attempt).
C32_OpenFailureNotFatal ==
  ret = RetConnect(FALSE)
    => /\ phase \in {"connected", "serving"}
       /\ phase = "serving" => monitor = "sleeping"

\* C34: the status of a SET or RST exchange is SUCCESS exactly for the
\* response "0", COM_ERROR for "1", ADDR_ERROR for "2", and UNKNOWN for every
\* other line, for a line that is no number and for no response at all.
C34_Expected(r) ==
  IF r = Response(<<0>>) THEN "SUCCESS"
  ELSE IF r = Response(<<1>>) THEN "COM_ERROR"
  ELSE IF r = Response(<<2>>) THEN "ADDR_ERROR"
  ELSE "UNKNOWN"

C34_StatusMapping ==
  ret.of.kind \in {"SET", "RST"} /\ ret.exchanged
    => ret.kind = "status" /\ ret.status = C34_Expected(ret.resp)

\* C35: every response line _send_command returns to its caller was sent by
\* the device in answer to that same command: the late line of an earlier
\* exchange that timed out is never returned as the result of a later command.
C35_ResponseAnswersItsCommand ==
  [][pc[Caller] = "wait" /\ pc'[Caller] = "idle" /\ response_queue # <<>>
       => /\ ret'.resp = Response(Head(response_queue).line)
          /\ Head(response_queue).owner = Caller]_vars

\* C36: after every reconciliation pass that returned, the entry of every
\* address the Registry holds shows active_channel and last_status of its
\* Device, also when the address had left the Registry and come back while
\* its entry stayed.
C36_MirrorEqualsRegistryAfterPass ==
  pass.ended = "returned"
    => \A a \in DOMAIN devices \cap mux_nodes : mirror[a] = Attributes(devices[a])

\* C37: the handling of one remote trigger write writes at most one command
\* line; the write a handler makes to set a trigger back to 0 or false is
\* notified to the server as a sentinel, and the handling of a sentinel
\* writes no command line, writes no trigger and queues no notification: the
\* handling of a remote write ends with the notification of its own reset.
C37_OneCommandPerWrite ==
  [][/\ handled'.addr # 0 => Len(sent') <= 1
     /\ \A i \in 1..Len(events') : events'[i].own => IsSentinel(events'[i])
     /\ handled'.addr # 0 /\ IsSentinel(handled')
          => sent' = <<>> /\ trig' = trig /\ events' = Tail(events)]_vars

\* C37, its case: the notification of the reset a handler made after a
\* SetChannel write that sent a SET line has itself been handled.
C37_OwnResetHandled ==
  /\ handled = Echo(SetEvent(1, 1)) /\ sent = <<>> /\ events = <<>>
  /\ devices[1].last_status = "SUCCESS" /\ trig[1].SetChannel = 0

C39_ScanWhenDisconnected ==
  [][~is_connected /\ pc[Caller] = "idle"
       => /\ op'[Caller].kind # "SCN"
          /\ ret'.of.kind = "SCN"
               => /\ ret' = RetNoList(Cmd("SCN", 0, 0)) /\ ret'.keys = {}
                  /\ UNCHANGED <<tvars, rvars, pc, op>>]_vars

\* C39, its case: a scan called on a stopped transport has just returned the
\* empty list while the Registry holds a Device.
C39_ScanRefused ==
  /\ ret = RetNoList(Cmd("SCN", 0, 0)) /\ ~is_connected
  /\ DOMAIN devices # {} /\ pc[Caller] = "idle"

\* C40: from the start, and so in every state reached once the creation of a
\* mirror entry has completed, MuxBoardCount is the number of mirror entries,
\* whatever the number of Devices the Registry holds, and no step lowers it.
C40_CountIsEntriesAndGrows ==
  /\ mux_count = Cardinality(mux_nodes)
  /\ [][/\ mux_count' = Cardinality(mux_nodes')
        /\ mux_count' >= mux_count]_vars

\* C40, its case: two entries were created and counted, and a later scan has
\* emptied the Registry: the count stays at the number of entries.
C40_CountAboveRegistry ==
  /\ phase = "serving" /\ mux_nodes = {1, 2} /\ mux_count = 2
  /\ DOMAIN devices = {}

=============================================================================
